---- MODULE Spec2Model ----
(***************************************************************************)
(* Model of preprocessy.resampling.Split (src/preprocessy/resampling/      *)
(* _split.py): the constructor, and train_test_split(params) with its      *)
(* private __validate_input().                                             *)
(*                                                                         *)
(* Python values are records tagged by their type in field t.  A float is  *)
(* [t |-> "float", v |-> m] and stands for m / Den; the fractions used     *)
(* here are those on which IEEE doubles and exact arithmetic agree for     *)
(* 1 - f and int(f * n), n <= 12.  A DataFrame or Series carries `rows`,   *)
(* the identities (0-based positions in the input) of its rows in order,   *)
(* and `index`, its row labels in order.  Inputs carry the default         *)
(* RangeIndex and at least one column.                                     *)
(*                                                                         *)
(* X, y, test_size, train_size, random_state and df are the fields of the  *)
(* instance, params is the dict passed to train_test_split, train and test *)
(* are its locals, ret is what it returns, outcome is "ok" or the kind of  *)
(* the error it raised, pc is its position.  The other variables record    *)
(* history: arg is the dict as it was on entry, shuffled whether the       *)
(* current call has drawn its permutation, fresh whether no call has been  *)
(* made on the instance, reused whether the current call is not the first  *)
(* on it, and last the outcome and results of the call before, kept when   *)
(* the current call was given an equal dict.                               *)
(***************************************************************************)
EXTENDS Integers, Sequences, FiniteSets, TLC

VARIABLES X, y, test_size, train_size, random_state, df,
          params, train, test, ret, outcome, pc,
          arg, shuffled, fresh, reused, last

vars == <<X, y, test_size, train_size, random_state, df,
          params, train, test, ret, outcome, pc,
          arg, shuffled, fresh, reused, last>>

-----------------------------------------------------------------------------
(* Bounds of the model *)

MaxRows == 3
MaxCols == 2
MaxSeqRows == 2
ScenarioRows == 10

(* Program constants *)

DefaultSeed == 69
Den == 1000
DefaultTest == 200
DefaultTrain == 800

ColNames == <<"a", "b", "c", "d">>
TargetName == "t"
NoName == ""

-----------------------------------------------------------------------------
(* Python values *)

NoneV == [t |-> "None"]
Unset == [t |-> "unset"]
Absent == [t |-> "absent"]
PyInt(i) == [t |-> "int", v |-> i]
PyFloat(m) == [t |-> "float", v |-> m]
PyStr(s) == [t |-> "str", v |-> s]
List(n) == [t |-> "list", n |-> n]
NdArray(n) == [t |-> "ndarray", n |-> n]

Range(a, b) == [i \in 1..(b - a) |-> a + i - 1]

DataFrame(cols, idx, rws) ==
    [t |-> "DataFrame", columns |-> cols, index |-> idx, rows |-> rws]
Series(nm, idx, rws) ==
    [t |-> "Series", name |-> nm, index |-> idx, rows |-> rws]

InputFrame(n, k) == DataFrame(SubSeq(ColNames, 1, k), Range(0, n), Range(0, n))
InputSeries(n, nm) == Series(nm, Range(0, n), Range(0, n))

IsNone(v) == v.t = "None"
IsInt(v) == v.t = "int"
IsFloat(v) == v.t = "float"
IsDataFrame(v) == v.t = "DataFrame"
IsSeries(v) == v.t = "Series"
Truthy(v) == IF v.t \in {"int", "float"} THEN v.v # 0 ELSE ~IsNone(v)
HasShape(v) == v.t \in {"DataFrame", "Series", "ndarray"}
Shape0(v) == IF v.t = "ndarray" THEN v.n ELSE Len(v.rows)
num_of_samples(v) == Len(v.rows)
PyLen(v) == Len(v.rows)

Min(a, b) == IF a < b THEN a ELSE b
Max(a, b) == IF a > b THEN a ELSE b

-----------------------------------------------------------------------------
(* Pure helpers of train_test_split *)

(* mutant: the product is rounded up instead of truncated *)
IntOfProduct_RoundUp(m, n) == (m * n + Den - 1) \div Den

(* int(m / Den * n): truncation toward zero *)
IntOfProduct(m, n) ==
    IF m * n >= 0 THEN (m * n) \div Den ELSE -((-(m * n)) \div Den)

(* mutant: 1 / k instead of 1 / sqrt(k) *)
InvSqrt_Reciprocal(k) == Den \div k

(* float(1 / np.sqrt(k)), to the precision of the model's fractions *)
InvSqrt(k) == CHOOSE m \in 0..Den : m * m * k <= Den * Den
                                    /\ (m + 1) * (m + 1) * k > Den * Den

(* Python slice bound normalisation *)
SliceBound(i, n) == IF i < 0 THEN Max(n + i, 0) ELSE Min(i, n)

ILocFrom(d, i) ==
    [d EXCEPT !.index = SubSeq(d.index, SliceBound(i, Len(d.rows)) + 1, Len(d.rows)),
              !.rows = SubSeq(d.rows, SliceBound(i, Len(d.rows)) + 1, Len(d.rows))]
ILocTo(d, i) ==
    [d EXCEPT !.index = SubSeq(d.index, 1, SliceBound(i, Len(d.rows))),
              !.rows = SubSeq(d.rows, 1, SliceBound(i, Len(d.rows)))]

InsertAt(p, pos, x) == SubSeq(p, 1, pos) \o <<x>> \o SubSeq(p, pos + 1, Len(p))

(* np.random.seed(s); np.random.permutation(n): a permutation of 0..n-1 *)
(* that is a function of the seed and n                                 *)
RECURSIVE Permutation(_, _)
Permutation(s, n) ==
    IF n = 0 THEN <<>>
    ELSE InsertAt(Permutation(s \div n, n - 1), s % n, n - 1)

(* mutant: the reordered table keeps its labels (no reset_index) *)
Reorder_KeepIndex(d, p) ==
    [d EXCEPT !.rows = [i \in 1..Len(p) |-> d.rows[p[i] + 1]],
              !.index = [i \in 1..Len(p) |-> d.index[p[i] + 1]]]

(* d.iloc[p].reset_index(drop=True) *)
Reorder(d, p) ==
    [d EXCEPT !.rows = [i \in 1..Len(p) |-> d.rows[p[i] + 1]],
              !.index = Range(0, Len(p))]

(* pd.concat([X, y], axis=1) for equal default indexes *)
Concat(x, s) == [x EXCEPT !.columns = x.columns \o <<s.name>>]

Occurrences(cols, nm) == Cardinality({i \in 1..Len(cols) : cols[i] = nm})

(* d[nm]: a Series when the label is unique, a DataFrame otherwise *)
GetItem(d, nm) ==
    IF Occurrences(d.columns, nm) = 1
    THEN Series(nm, d.index, d.rows)
    ELSE [d EXCEPT !.columns = SelectSeq(d.columns, LAMBDA c : c = nm)]

(* d.drop([nm], axis=1) *)
Drop(d, nm) == [d EXCEPT !.columns = SelectSeq(d.columns, LAMBDA c : c # nm)]

-----------------------------------------------------------------------------
(* __validate_input.  The result carries the outcome ("ok" or the kind of  *)
(* the error raised) and the values the size fields hold when the method   *)
(* is left.  Error kinds name the raise sites by the taxonomy of the       *)
(* specification: MissingInputError, ShapeMismatchError, ValueRangeError   *)
(* and MissingNameError are Python ValueErrors, TypeMismatchError is a     *)
(* Python TypeError.                                                       *)

Result(e, ts, trs) == [err |-> e, test_size |-> ts, train_size |-> trs]

(* lines 88-157: the four branches on the truthiness of the two sizes *)
ValidateSizes(x, yy, ts, trs, n_samples) ==
    IF Truthy(ts) /\ Truthy(trs)
    THEN IF ~IsInt(ts) \/ ~IsFloat(ts)
         THEN Result("TypeMismatchError", ts, trs)
         ELSE IF ~IsInt(trs) \/ ~IsFloat(trs)
         THEN Result("TypeMismatchError", ts, trs)
         \* line 97: isinstance(test_size, train_size) has a number where a
         \* type is required: Python raises TypeError, or the branch does
         ELSE Result("TypeMismatchError", ts, trs)
    ELSE IF Truthy(ts)
    THEN IF IsFloat(ts) /\ (ts.v < 0 \/ ts.v > Den)
         THEN Result("ValueRangeError", ts, trs)
         ELSE IF IsInt(ts) /\ (ts.v < 0 \/ ts.v > n_samples)
         THEN Result("ValueRangeError", ts, trs)
         ELSE Result("ok", ts,
                     IF IsFloat(ts) THEN PyFloat(Den - ts.v)
                                    ELSE PyInt(n_samples - ts.v))
    ELSE IF Truthy(trs)
    THEN IF IsFloat(trs) /\ (trs.v < 0 \/ trs.v > Den)
         THEN Result("ValueRangeError", ts, trs)
         ELSE IF IsInt(trs) /\ (trs.v < 0 \/ trs.v > n_samples)
         THEN Result("ValueRangeError", ts, trs)
         ELSE Result("ok",
                     IF IsFloat(trs) THEN PyFloat(Den - trs.v)
                                     ELSE PyInt(n_samples - trs.v),
                     trs)
    ELSE IF IsNone(yy)
    THEN Result("ok", PyFloat(DefaultTest), PyFloat(DefaultTrain))
    ELSE Result("ok", PyFloat(InvSqrt(Len(x.columns))),
                      PyFloat(Den - InvSqrt(Len(x.columns))))

ValidateInput(x, yy, ts, trs, rs) ==
    IF IsNone(x) THEN Result("MissingInputError", ts, trs)
    ELSE IF ~IsDataFrame(x) THEN Result("TypeMismatchError", ts, trs)
    ELSE IF ~IsNone(yy) /\ ~HasShape(yy) THEN Result("AttributeError", ts, trs)
    ELSE IF ~IsNone(yy) /\ num_of_samples(x) # Shape0(yy)
    THEN Result("ShapeMismatchError", ts, trs)
    ELSE IF ~IsNone(yy) /\ ~IsSeries(yy) THEN Result("TypeMismatchError", ts, trs)
    ELSE LET r == ValidateSizes(x, yy, ts, trs, num_of_samples(x))
         IN  IF r.err = "ok" /\ ~IsInt(rs)
             THEN Result("TypeMismatchError", r.test_size, r.train_size)
             ELSE r

-----------------------------------------------------------------------------
(* Inputs *)

Keys == {"X", "y", "test_size", "train_size", "random_state"}
ResultKeys == {"X_train", "X_test", "y_train", "y_test", "train", "test"}

FloatGrid == {-100, 0, 300, 700, Den, 1500}

RowCounts == 0..MaxRows \cup {ScenarioRows}
SeqRowCounts == 1..MaxSeqRows

XValsOf(Rs, C) == {NoneV, List(1)} \cup {InputFrame(n, k) : n \in Rs, k \in 1..C}
YValsOf(Rs) == {NoneV, List(1)}
               \cup {NdArray(n) : n \in Rs}
               \cup {InputSeries(n, nm) : n \in Rs, nm \in {TargetName, "a", NoName}}
SizeVals == {NoneV} \cup {PyFloat(m) : m \in FloatGrid}
            \cup {PyInt(i) : i \in (-1)..(MaxRows + 1)}
SeedVals == {PyInt(0), PyInt(-1), PyStr("seed")}

Opt(S) == S \cup {Absent}

(* the dict whose keys are the present entries of the choice c *)
MkBag(c) == [k \in {k \in Keys : c[k] # Absent} |-> c[k]]

Bags ==
    {MkBag(c) : c \in [X : Opt(XValsOf(RowCounts, MaxCols)),
                       y : Opt(YValsOf(RowCounts)),
                       test_size : Opt(SizeVals),
                       train_size : Opt(SizeVals),
                       random_state : Opt(SeedVals)]}

(* the smaller inputs of the calls that share one instance *)
SeqBags ==
    {MkBag(c) : c \in [X : Opt({InputFrame(n, 1) : n \in SeqRowCounts}),
                       y : Opt({NoneV, InputSeries(MaxSeqRows, TargetName)}),
                       test_size : Opt({NoneV, PyInt(1)}),
                       train_size : Opt({PyFloat(700)}),
                       random_state : Opt({PyInt(0)})]}

Has(p, k) == k \in DOMAIN p

NoLast == [t |-> "nolast"]

-----------------------------------------------------------------------------
(* State machine *)

(* Split.__init__ *)
Init ==
    /\ df = NoneV
    /\ X = NoneV
    /\ y = NoneV
    /\ test_size = NoneV
    /\ train_size = NoneV
    /\ random_state = PyInt(DefaultSeed)
    /\ params = NoneV
    /\ train = Unset
    /\ test = Unset
    /\ ret = Unset
    /\ outcome = "none"
    /\ pc = "ready"
    /\ arg = NoneV
    /\ shuffled = FALSE
    /\ fresh = TRUE
    /\ reused = FALSE
    /\ last = NoLast

(* a new Split() replaces the instance *)
New ==
    /\ pc = "ready"
    /\ ~fresh
    /\ df' = NoneV
    /\ X' = NoneV
    /\ y' = NoneV
    /\ test_size' = NoneV
    /\ train_size' = NoneV
    /\ random_state' = PyInt(DefaultSeed)
    /\ params' = NoneV
    /\ train' = Unset
    /\ test' = Unset
    /\ ret' = Unset
    /\ outcome' = "none"
    /\ arg' = NoneV
    /\ shuffled' = FALSE
    /\ fresh' = TRUE
    /\ reused' = FALSE
    /\ last' = NoLast
    /\ UNCHANGED pc

(* mutant: the key random_state of the bag is ignored *)
Configure_IgnoreSeed(p) ==
    /\ pc = "ready"
    /\ X' = IF Has(p, "X") THEN p["X"] ELSE X
    /\ y' = IF Has(p, "y") THEN p["y"] ELSE y
    /\ test_size' = IF Has(p, "test_size") THEN p["test_size"] ELSE test_size
    /\ train_size' = IF Has(p, "train_size") THEN p["train_size"] ELSE train_size
    /\ random_state' = random_state
    /\ params' = p
    /\ arg' = p
    /\ train' = Unset
    /\ test' = Unset
    /\ ret' = Unset
    /\ outcome' = "running"
    /\ shuffled' = FALSE
    /\ fresh' = FALSE
    /\ reused' = ~fresh
    /\ last' = IF ~fresh /\ p = arg
               THEN [t |-> "call", outcome |-> outcome, params |-> params]
               ELSE NoLast
    /\ pc' = "validate"
    /\ UNCHANGED df

(* train_test_split(p), lines 206-215 *)
Configure(p) ==
    /\ pc = "ready"
    /\ X' = IF Has(p, "X") THEN p["X"] ELSE X
    /\ y' = IF Has(p, "y") THEN p["y"] ELSE y
    /\ test_size' = IF Has(p, "test_size") THEN p["test_size"] ELSE test_size
    /\ train_size' = IF Has(p, "train_size") THEN p["train_size"] ELSE train_size
    /\ random_state' = IF Has(p, "random_state") THEN p["random_state"]
                       ELSE random_state
    /\ params' = p
    /\ arg' = p
    /\ train' = Unset
    /\ test' = Unset
    /\ ret' = Unset
    /\ outcome' = "running"
    /\ shuffled' = FALSE
    /\ fresh' = FALSE
    /\ reused' = ~fresh
    /\ last' = IF ~fresh /\ p = arg
               THEN [t |-> "call", outcome |-> outcome, params |-> params]
               ELSE NoLast
    /\ pc' = "validate"
    /\ UNCHANGED df

(* line 217 *)
ValidateStep ==
    /\ pc = "validate"
    /\ LET r == ValidateInput(X, y, test_size, train_size, random_state)
       IN  /\ test_size' = r.test_size
           /\ train_size' = r.train_size
           /\ IF r.err = "ok"
              THEN pc' = "split" /\ UNCHANGED outcome
              ELSE pc' = "ready" /\ outcome' = r.err
    /\ UNCHANGED <<X, y, random_state, df, params, train, test, ret,
                   arg, shuffled, fresh, reused, last>>

(* lines 219-235; np.random.seed rejects a negative seed with ValueError *)
SplitStep ==
    /\ pc = "split"
    /\ IF random_state.v < 0
       THEN /\ outcome' = "SeedValueError"
            /\ pc' = "ready"
            /\ UNCHANGED <<df, train, test, shuffled>>
       ELSE LET joined == IF ~IsNone(y) THEN Concat(X, y) ELSE X
                permuted == Reorder(joined,
                                    Permutation(random_state.v, PyLen(joined)))
                index == IF IsFloat(test_size)
                         THEN IntOfProduct(test_size.v, PyLen(permuted))
                         ELSE test_size.v
            IN  /\ df' = permuted
                /\ train' = ILocFrom(permuted, index)
                /\ test' = ILocTo(permuted, index)
                /\ shuffled' = TRUE
                /\ pc' = "emit"
                /\ UNCHANGED outcome
    /\ UNCHANGED <<X, y, test_size, train_size, random_state, params, ret,
                   arg, fresh, reused, last>>

(* mutant: the results replace the bag *)
Update_Replace(p, w) == w

(* the dict p after p[k] = w[k] for every key of w *)
Update(p, w) == [k \in DOMAIN p \cup DOMAIN w |-> IF k \in DOMAIN w THEN w[k] ELSE p[k]]

(* mutant: the results are written before the target's name is checked *)
EmitStep_WriteFirst ==
    /\ pc = "emit"
    /\ IF ~IsNone(y)
       THEN /\ params' = Update(params,
                    [X_train |-> Drop(train, y.name),
                     X_test |-> Drop(test, y.name),
                     y_train |-> GetItem(train, y.name),
                     y_test |-> GetItem(test, y.name)])
            /\ IF y.name = NoName
               THEN outcome' = "MissingNameError" /\ UNCHANGED ret
               ELSE ret' = NoneV /\ outcome' = "ok"
       ELSE /\ params' = Update(params, [train |-> train, test |-> test])
            /\ ret' = NoneV
            /\ outcome' = "ok"
    /\ pc' = "ready"
    /\ UNCHANGED <<X, y, test_size, train_size, random_state, df, train, test,
                   arg, shuffled, fresh, reused, last>>

(* lines 237-253, and the implicit return None *)
EmitStep ==
    /\ pc = "emit"
    /\ IF ~IsNone(y)
       THEN IF y.name = NoName
            THEN /\ outcome' = "MissingNameError"
                 /\ UNCHANGED <<params, ret>>
            ELSE /\ params' = Update(params,
                         [X_train |-> Drop(train, y.name),
                          X_test |-> Drop(test, y.name),
                          y_train |-> GetItem(train, y.name),
                          y_test |-> GetItem(test, y.name)])
                 /\ ret' = NoneV
                 /\ outcome' = "ok"
       ELSE /\ params' = Update(params, [train |-> train, test |-> test])
            /\ ret' = NoneV
            /\ outcome' = "ok"
    /\ pc' = "ready"
    /\ UNCHANGED <<X, y, test_size, train_size, random_state, df, train, test,
                   arg, shuffled, fresh, reused, last>>

(* every call is made on a new instance *)
FreshCall == pc = "ready" /\ fresh /\ \E p \in Bags : Configure(p)

Next == New \/ FreshCall \/ ValidateStep \/ SplitStep \/ EmitStep

Spec == Init /\ [][Next]_vars

(* calls follow one another on the same instance *)
AnyCall == pc = "ready" /\ \E p \in SeqBags : Configure(p)

NextSeq == New \/ AnyCall \/ ValidateStep \/ SplitStep \/ EmitStep

SpecSeq == Init /\ [][NextSeq]_vars

-----------------------------------------------------------------------------
(* Vocabulary of the properties *)

ValidationErrors == {"MissingInputError", "TypeMismatchError",
                     "ShapeMismatchError", "ValueRangeError"}
Taxonomy == ValidationErrors \cup {"MissingNameError"}

Returned == pc = "ready" /\ outcome = "ok"

(* what __validate_input did in the current or the last call *)
Verdict ==
    IF pc = "validate" \/ outcome = "none" THEN "pending"
    ELSE IF pc \in {"split", "emit"} THEN "passed"
    ELSE IF outcome \in {"ok", "MissingNameError", "SeedValueError"} THEN "passed"
    ELSE outcome

Called == arg # NoneV
Given(k) == Called /\ Has(arg, k) /\ ~IsNone(arg[k])

RowCount(v) == IF v.t \in {"list", "ndarray"} THEN v.n ELSE Len(v.rows)

(* the checks of validation that do not concern the sizes all pass *)
OtherChecksPass ==
    /\ IsDataFrame(X)
    /\ IsNone(y) \/ (IsSeries(y) /\ PyLen(y) = PyLen(X))
    /\ IsInt(random_state)

InRange(s, n) == IF IsFloat(s) THEN 0 <= s.v /\ s.v <= Den
                 ELSE 0 <= s.v /\ s.v <= n
Complement(s, n) == IF IsFloat(s) THEN PyFloat(Den - s.v) ELSE PyInt(n - s.v)

TestBlock == IF IsNone(y) THEN params["test"] ELSE params["X_test"]
TrainBlock == IF IsNone(y) THEN params["train"] ELSE params["X_train"]
Image(q) == {q[i] : i \in 1..Len(q)}

-----------------------------------------------------------------------------
(* C1: after a call that returns, on an input of n rows, the permuted row  *)
(* order is a bijection over 0..n-1 (the seeded permutation), the test     *)
(* block is its first k rows and the train block the other n-k, where      *)
(* k = floor(test_size * n) for a fraction and k = test_size for a count;  *)
(* the two blocks are disjoint, cover every row and their lengths sum to n *)
C1_Partition ==
    Returned =>
        LET n == PyLen(X)
            k == IF IsFloat(test_size) THEN (test_size.v * n) \div Den
                 ELSE test_size.v
        IN  /\ k \in 0..n
            /\ Len(df.rows) = n
            /\ Image(df.rows) = 0..(n - 1)
            /\ df.rows = Permutation(random_state.v, n)
            /\ TestBlock.rows = SubSeq(df.rows, 1, k)
            /\ TrainBlock.rows = SubSeq(df.rows, k + 1, n)
            /\ Len(TrainBlock.rows) + Len(TestBlock.rows) = n
            /\ Image(TrainBlock.rows) \cap Image(TestBlock.rows) = {}
            /\ Image(TrainBlock.rows) \cup Image(TestBlock.rows) = 0..(n - 1)
            /\ ~IsNone(y) => /\ params["y_test"].rows = TestBlock.rows
                             /\ params["y_train"].rows = TrainBlock.rows

C1_Witness ==
    /\ Returned
    /\ IsFloat(test_size)
    /\ Len(TestBlock.rows) >= 1
    /\ Len(TrainBlock.rows) >= 2
    /\ df.rows # Range(0, PyLen(X))

(* C2: with both sizes given (and every other check passing), validation   *)
(* raises TypeMismatchError exactly when one is a fraction and the other a *)
(* count, ValueRangeError exactly when they are of one kind and do not sum *)
(* to 1 (fractions) or to the sample count (counts), and passes otherwise, *)
(* leaving the given sizes in place                                        *)
C2_BothSizes ==
    (Given("test_size") /\ Given("train_size")
     /\ OtherChecksPass /\ Verdict # "pending") =>
        LET a == arg["test_size"]
            b == arg["train_size"]
        IN  IF a.t # b.t THEN Verdict = "TypeMismatchError"
            ELSE IF a.v + b.v # (IF IsFloat(a) THEN Den ELSE PyLen(X))
            THEN Verdict = "ValueRangeError"
            ELSE Verdict = "passed" /\ test_size = a /\ train_size = b

(* C3: on a new instance, with exactly one size given, in its closed range *)
(* (0 and 1, or 0 and n_samples, included), validation passes and leaves   *)
(* the other size at the complement of the given one                       *)
C3_Complement ==
    /\ (Given("test_size") /\ ~Given("train_size") /\ OtherChecksPass
        /\ ~reused /\ Verdict # "pending"
        /\ InRange(arg["test_size"], PyLen(X))) =>
           /\ Verdict = "passed"
           /\ train_size = Complement(arg["test_size"], PyLen(X))
    /\ (Given("train_size") /\ ~Given("test_size") /\ OtherChecksPass
        /\ ~reused /\ Verdict # "pending"
        /\ InRange(arg["train_size"], PyLen(X))) =>
           /\ Verdict = "passed"
           /\ test_size = Complement(arg["train_size"], PyLen(X))

(* C4: a call made with the bag of the call before it, on the same         *)
(* instance, ends as that call did and yields the same results             *)
C4_Determinism ==
    (pc = "ready" /\ last # NoLast) =>
        /\ outcome = last.outcome
        /\ params = last.params

C6_FailFast ==
    (pc = "ready" /\ outcome \in Taxonomy) =>
        /\ DOMAIN params \cap ResultKeys = {}
        /\ outcome \in ValidationErrors =>
               ~shuffled /\ train = Unset /\ test = Unset

C6_Witness ==
    /\ pc = "ready"
    /\ outcome = "ValueRangeError"
    /\ IsDataFrame(X)
    /\ ~shuffled
    /\ DOMAIN params = DOMAIN arg

(* C7: on a new instance with at most one size given, validation ends with *)
(* the error of the first violated check, in the order: X absent, X not a  *)
(* table, y of another row count, y not a series, the lone size out of     *)
(* range, random_state not an integer; it passes when none is violated     *)
C7_Expected ==
    IF IsNone(X) THEN "MissingInputError"
    ELSE IF ~IsDataFrame(X) THEN "TypeMismatchError"
    ELSE IF ~IsNone(y) /\ RowCount(y) # PyLen(X) THEN "ShapeMismatchError"
    ELSE IF ~IsNone(y) /\ ~IsSeries(y) THEN "TypeMismatchError"
    ELSE IF Given("test_size") /\ ~InRange(arg["test_size"], PyLen(X))
    THEN "ValueRangeError"
    ELSE IF Given("train_size") /\ ~InRange(arg["train_size"], PyLen(X))
    THEN "ValueRangeError"
    ELSE IF ~IsInt(random_state) THEN "TypeMismatchError"
    ELSE "passed"

C7_FirstViolatedCheck ==
    (Called /\ ~reused /\ Verdict # "pending"
     /\ ~(Given("test_size") /\ Given("train_size"))) =>
        Verdict = C7_Expected

(* C8 as stated: after a call that returns, every output block carries the *)
(* row labels 0..len-1, and X_train and X_test have no column of the       *)
(* target's name                                                           *)
C8_FreshIndex ==
    Returned =>
        /\ \A k \in DOMAIN params \cap ResultKeys :
               params[k].index = Range(0, Len(params[k].rows))
        /\ ~IsNone(y) => /\ Occurrences(params["X_train"].columns, y.name) = 0
                         /\ Occurrences(params["X_test"].columns, y.name) = 0

(* C8 amended: after a call that returns with k test rows out of n, the    *)
(* test blocks carry the row labels 0..k-1 and the train blocks the labels *)
(* k..n-1 (the index is reset once, on the permuted table, before it is    *)
(* cut), and X_train and X_test have no column of the target's name        *)
C8_SharedIndex ==
    Returned =>
        LET k == Len(TestBlock.rows)
            n == PyLen(X)
        IN  /\ \A key \in DOMAIN params \cap {"test", "X_test", "y_test"} :
                   params[key].index = Range(0, k)
            /\ \A key \in DOMAIN params \cap {"train", "X_train", "y_train"} :
                   params[key].index = Range(k, n)
            /\ ~IsNone(y) =>
                   /\ Occurrences(params["X_train"].columns, y.name) = 0
                   /\ Occurrences(params["X_test"].columns, y.name) = 0

C8_Witness ==
    /\ Returned
    /\ ~IsNone(y)
    /\ PyLen(X) = ScenarioRows
    /\ Len(params["X_test"].rows) = 3
    /\ params["y_train"].index = Range(3, ScenarioRows)

C10_Step ==
    (pc = "ready" /\ pc' = "validate") =>
        /\ X' = IF Has(arg', "X") THEN arg'["X"] ELSE X
        /\ y' = IF Has(arg', "y") THEN arg'["y"] ELSE y
        /\ test_size' = IF Has(arg', "test_size") THEN arg'["test_size"]
                        ELSE test_size
        /\ train_size' = IF Has(arg', "train_size") THEN arg'["train_size"]
                         ELSE train_size
        /\ random_state' = IF Has(arg', "random_state") THEN arg'["random_state"]
                           ELSE random_state
        /\ df' = df

C10_NewInstance ==
    fresh => /\ X = NoneV
             /\ y = NoneV
             /\ test_size = NoneV
             /\ train_size = NoneV
             /\ random_state = PyInt(69)

C10_Configure == []C10_NewInstance /\ [][C10_Step]_vars

C10_Witness ==
    /\ pc = "validate"
    /\ ~Has(arg, "test_size")
    /\ test_size = PyInt(1)
    /\ ~Has(arg, "X")
    /\ IsDataFrame(X)
    /\ Has(arg, "y")

====
